---- MODULE Spec2Model ----
(***************************************************************************)
(* A model of the countdown-timer plugin (src/main.ts): the text codec,    *)
(* the colour utilities, the render widget with its repeating timer, the   *)
(* edit modal, the host document writes and the settings duration field.   *)
(*                                                                         *)
(* Text is modelled as a sequence of one-character strings, so that trim,  *)
(* the colour pattern, date formatting and date parsing are computed on    *)
(* characters as the code computes them.  Instants are integers in         *)
(* milliseconds since the epoch; the calendar window of the model is       *)
(* January 1970 in a UTC local time zone, which keeps instants small.      *)
(***************************************************************************)
EXTENDS Integers, Sequences, FiniteSets, TLC

(***************************************************************************)
(* Optional values: `undefined` / `null` of the source.                    *)
(***************************************************************************)
Some(x) == [ok |-> TRUE, v |-> x]
NoStr == [ok |-> FALSE, v |-> <<>>]
NoDate == [ok |-> FALSE, v |-> 0]

Max(a, b) == IF a >= b THEN a ELSE b

(***************************************************************************)
(* Characters.                                                             *)
(***************************************************************************)
Digits == <<"0", "1", "2", "3", "4", "5", "6", "7", "8", "9">>
DigitSet == {Digits[i] : i \in 1..10}
HexUpper == {"A", "B", "C", "D", "E", "F"}
HexLower == {"a", "b", "c", "d", "e", "f"}
Whitespace == {" "}

DigitVal(c) == (CHOOSE i \in 1..10 : Digits[i] = c) - 1

ToUpperChar(c) ==
  CASE c = "a" -> "A" [] c = "b" -> "B" [] c = "c" -> "C"
    [] c = "d" -> "D" [] c = "e" -> "E" [] c = "f" -> "F"
    [] OTHER -> c

\* String.prototype.toUpperCase on the hex digits
ToUpperCase(s) == [i \in 1..Len(s) |-> ToUpperChar(s[i])]

RECURSIVE TrimStart(_)
TrimStart(s) ==
  IF s # <<>> /\ Head(s) \in Whitespace THEN TrimStart(Tail(s)) ELSE s

RECURSIVE TrimEnd(_)
TrimEnd(s) ==
  IF s # <<>> /\ s[Len(s)] \in Whitespace
    THEN TrimEnd(SubSeq(s, 1, Len(s) - 1))
    ELSE s

\* String.prototype.trim
Trim(s) == TrimEnd(TrimStart(s))

\* Number.prototype.toString for a natural number
RECURSIVE NumToStr(_)
NumToStr(n) ==
  IF n < 10 THEN <<Digits[n + 1]>>
  ELSE NumToStr(n \div 10) \o <<Digits[(n % 10) + 1]>>

\* String.prototype.padStart(width, "0")
PadStart(s, width) ==
  [i \in 1..(Max(width, Len(s)) - Len(s)) |-> "0"] \o s

\* pad: two-digit zero-padded text of a number
pad(value) == PadStart(NumToStr(value), 2)

\* the decimal value of a string of digits
RECURSIVE StrToNum(_)
StrToNum(s) ==
  IF s = <<>> THEN 0
  ELSE 10 * StrToNum(SubSeq(s, 1, Len(s) - 1)) + DigitVal(s[Len(s)])

AllDigits(s) == \A i \in 1..Len(s) : s[i] \in DigitSet

(***************************************************************************)
(* Colour utilities.                                                       *)
(***************************************************************************)
COLOR_PRESETS ==
  << <<"#", "F", "2", "5", "C", "5", "4">>,
     <<"#", "F", "7", "9", "0", "0", "9">>,
     <<"#", "F", "2", "C", "9", "4", "C">>,
     <<"#", "1", "2", "B", "7", "6", "A">>,
     <<"#", "2", "E", "9", "0", "F", "A">>,
     <<"#", "9", "E", "7", "7", "E", "D">>,
     <<"#", "9", "8", "A", "2", "B", "3">> >>

\* the pattern ^#([0-9a-fA-F]{6})$
MatchesHexColour(value) ==
  /\ Len(value) = 7
  /\ value[1] = "#"
  /\ \A i \in 2..7 : value[i] \in DigitSet \cup HexUpper \cup HexLower

\* the pattern ^#[0-9A-F]{6}$ of a normalized colour
IsNormalisedColour(value) ==
  /\ Len(value) = 7
  /\ value[1] = "#"
  /\ \A i \in 2..7 : value[i] \in DigitSet \cup HexUpper

\* normaliseColor(input: string | undefined): string | null
normaliseColor(input) ==
  IF ~input.ok \/ input.v = <<>> THEN NoStr
  ELSE LET value == Trim(input.v)
       IN IF MatchesHexColour(value) THEN Some(ToUpperCase(value)) ELSE NoStr

colorsEqual(a, b) == normaliseColor(Some(a)) = normaliseColor(Some(b))

\* a ?? b
Coalesce(opt, fallback) == IF opt.ok THEN opt.v ELSE fallback

(***************************************************************************)
(* Dates.  An instant is a number of milliseconds since the epoch.         *)
(***************************************************************************)
MsPerSecond == 1000
MsPerMinute == 60000
MsPerHour == 3600000
MsPerDay == 86400000
DaysInWindow == 31

InWindow(ms) == 0 <= ms /\ ms \div MsPerDay < DaysInWindow

DatePrefix == <<"1", "9", "7", "0", "-", "0", "1", "-">>

\* Date.prototype.toISOString: YYYY-MM-DDTHH:mm:ss.sssZ
toISOString(ms) ==
  DatePrefix \o pad((ms \div MsPerDay) + 1) \o <<"T">>
    \o pad((ms % MsPerDay) \div MsPerHour) \o <<":">>
    \o pad((ms % MsPerHour) \div MsPerMinute) \o <<":">>
    \o pad((ms % MsPerMinute) \div MsPerSecond) \o <<".">>
    \o PadStart(NumToStr(ms % MsPerSecond), 3) \o <<"Z">>

\* toDateTimeLocalInput(date): YYYY-MM-DDTHH:mm from the local-time getters
toDateTimeLocalInput(ms) ==
  DatePrefix \o pad((ms \div MsPerDay) + 1) \o <<"T">>
    \o pad((ms % MsPerDay) \div MsPerHour) \o <<":">>
    \o pad((ms % MsPerHour) \div MsPerMinute)

\* a two-digit field of a date-time string, below a limit
Field2(s, at, limit) ==
  IF AllDigits(SubSeq(s, at, at + 1)) /\ StrToNum(SubSeq(s, at, at + 1)) < limit
    THEN Some(StrToNum(SubSeq(s, at, at + 1)))
    ELSE NoDate

\* the date part YYYY-MM-DD, as milliseconds at midnight
ParseDatePart(s) ==
  IF Len(s) >= 10 /\ SubSeq(s, 1, 8) = DatePrefix
       /\ Field2(s, 9, DaysInWindow + 1).ok /\ Field2(s, 9, DaysInWindow + 1).v >= 1
    THEN Some((Field2(s, 9, DaysInWindow + 1).v - 1) * MsPerDay)
    ELSE NoDate

\* the time part THH:mm, as milliseconds after midnight
ParseTimePart(s) ==
  IF Len(s) >= 16 /\ s[11] = "T" /\ s[14] = ":"
       /\ Field2(s, 12, 24).ok /\ Field2(s, 15, 60).ok
    THEN Some(Field2(s, 12, 24).v * MsPerHour + Field2(s, 15, 60).v * MsPerMinute)
    ELSE NoDate

\* the seconds part :ss
ParseSecondsPart(s) ==
  IF Len(s) >= 19 /\ s[17] = ":" /\ Field2(s, 18, 60).ok
    THEN Some(Field2(s, 18, 60).v * MsPerSecond)
    ELSE NoDate

\* the fraction and zone part .sssZ
ParseMillisPart(s) ==
  IF Len(s) = 24 /\ s[20] = "." /\ AllDigits(SubSeq(s, 21, 23)) /\ s[24] = "Z"
    THEN Some(StrToNum(SubSeq(s, 21, 23)))
    ELSE NoDate

\* Date.parse on the date-time string formats: a date, a date and a local
\* time to the minute or to the second, or a full UTC timestamp; any other
\* text is NaN (not ok).
DateParse(s) ==
  LET d == ParseDatePart(s)
      t == ParseTimePart(s)
      sec == ParseSecondsPart(s)
      milli == ParseMillisPart(s)
  IN CASE ~d.ok -> NoDate
       [] Len(s) = 10 -> d
       [] Len(s) = 16 /\ t.ok -> Some(d.v + t.v)
       [] Len(s) = 19 /\ t.ok /\ sec.ok -> Some(d.v + t.v + sec.v)
       [] Len(s) = 24 /\ t.ok /\ sec.ok /\ milli.ok -> Some(d.v + t.v + sec.v + milli.v)
       [] OTHER -> NoDate

\* String.prototype.replace(/\s+/, "T"): the first run of whitespace
RECURSIVE ReplaceFirstWhitespace(_)
ReplaceFirstWhitespace(s) ==
  IF s = <<>> THEN <<>>
  ELSE IF Head(s) \in Whitespace THEN <<"T">> \o TrimStart(s)
  ELSE <<Head(s)>> \o ReplaceFirstWhitespace(Tail(s))

\* parseTargetDate(input: string | undefined): Date | null
parseTargetDate(input) ==
  IF ~input.ok \/ input.v = <<>> THEN NoDate
  ELSE DateParse(ReplaceFirstWhitespace(Trim(input.v)))

(***************************************************************************)
(* Text codec.  A block source and a document are sequences of lines: the  *)
(* result of split on line breaks, and the argument of join.               *)
(***************************************************************************)
\* the one-element text "fence" stands for the three backquotes of a fence
FenceOpen == <<"fence", "c", "o", "u", "n", "t", "d", "o", "w", "n">>
FenceClose == <<"fence">>

\* the non-empty trimmed lines of a source
RECURSIVE NonEmptyTrimmed(_)
NonEmptyTrimmed(source) ==
  IF source = <<>> THEN <<>>
  ELSE (IF Trim(Head(source)) = <<>> THEN <<>> ELSE <<Trim(Head(source))>>)
         \o NonEmptyTrimmed(Tail(source))

\* lines[i] of a JavaScript array: undefined past the end
At(lines, i) == IF i <= Len(lines) THEN Some(lines[i]) ELSE NoStr

\* parseCountdownSource(source, fallbackLabel, fallbackColor)
parseCountdownSource(source, fallbackLabel, fallbackColor) ==
  LET lines == NonEmptyTrimmed(source)
  IN IF lines = <<>>
       THEN [target |-> NoDate, label |-> fallbackLabel, color |-> fallbackColor]
       ELSE [target |-> parseTargetDate(At(lines, 1)),
             label |-> Trim(IF Len(lines) >= 2 THEN lines[2] ELSE fallbackLabel),
             color |-> Coalesce(normaliseColor(At(lines, 3)), fallbackColor)]

\* a serializer that writes the label before the target
serializeCountdownLinesSwapped(data) ==
  <<FenceOpen, data.label, data.target, data.color, FenceClose>>

\* serializeCountdownLines(data)
serializeCountdownLines(data) ==
  <<FenceOpen, data.target, data.label, data.color, FenceClose>>

\* Array.prototype.splice(start, deleteCount, ...items)
Splice(lines, start, deleteCount, items) ==
  LET from == IF start > Len(lines) THEN Len(lines) ELSE start
      del == IF deleteCount < 0 THEN 0
             ELSE IF deleteCount > Len(lines) - from THEN Len(lines) - from
             ELSE deleteCount
  IN SubSeq(lines, 1, from) \o items \o SubSeq(lines, from + del + 1, Len(lines))

(***************************************************************************)
(* Translations and settings.                                              *)
(***************************************************************************)
\* the default labels of the two string tables (the zh label is written in
\* pinyin, one element per character)
enStrings == [locale |-> "en", defaultLabel |-> <<"C", "o", "u", "n", "t", "d", "o", "w", "n">>]
zhStrings == [locale |-> "zh", defaultLabel |-> <<"dao", "ji", "shi">>]

DEFAULT_SETTINGS ==
  [defaultLabel |-> <<"C", "o", "u", "n", "t", "d", "o", "w", "n">>,
   defaultDurationMinutes |-> 60,
   defaultColor |-> COLOR_PRESETS[2]]

\* CountdownTimerPlugin.getDefaultLabel(strings)
getDefaultLabel(st, strings) ==
  LET custom == Trim(st.defaultLabel)
  IN IF custom = <<>> THEN strings.defaultLabel
     ELSE IF strings = enStrings /\ custom = zhStrings.defaultLabel THEN strings.defaultLabel
     ELSE IF strings = zhStrings /\ custom = enStrings.defaultLabel THEN strings.defaultLabel
     ELSE custom

\* CountdownTimerPlugin.loadSettings: the stored object (null, or an object
\* with some of the keys) merged over the defaults, key by key
loadSettings(stored, strings) ==
  [defaultLabel |->
     IF stored.present /\ stored.defaultLabel.ok
       THEN stored.defaultLabel.v ELSE strings.defaultLabel,
   defaultDurationMinutes |->
     IF stored.present /\ stored.defaultDurationMinutes.ok
       THEN stored.defaultDurationMinutes.v ELSE DEFAULT_SETTINGS.defaultDurationMinutes,
   defaultColor |->
     IF stored.present /\ stored.defaultColor.ok
       THEN stored.defaultColor.v ELSE DEFAULT_SETTINGS.defaultColor]

(***************************************************************************)
(* The state.                                                              *)
(***************************************************************************)
VARIABLES
  now,            \* Date.now(), in milliseconds
  settings,       \* CountdownTimerPlugin.settings
  durationInput,  \* the text last given to the settings duration field
  fileExists,     \* whether the vault holds the document
  doc,            \* the lines of the document
  view,           \* the CountdownView object of each widget
  timers,         \* the active repeating timers of the window, per widget
  modal,          \* the CountdownModal
  ops,            \* the calls of updateCountdownBlock awaiting the host
  notice,         \* the Notice shown last
  host            \* what the host and the browser report as their language

vars == <<now, settings, durationInput, fileExists, doc, view, timers, modal,
          ops, notice, host>>

\* the widgets
W == {1, 2}

\* bounds of the model
MaxMounts == 1
MaxModals == 1
MaxOps == 1
MaxClockSteps == 1
MaxSwatch == 2
MaxDocLen == 7

\* the steps of the clock
ShortStep == MsPerSecond \div 2
LongStep == MsPerMinute

\* how many steps of the clock lead to an instant
ClockStepsOf(t) == (t \div LongStep) + ((t % LongStep) \div ShortStep)

(***************************************************************************)
(* Locale resolution.  A value of the host is undefined, null, a number or *)
(* a string; host holds the fields app.locale and app.lang, the vault      *)
(* (with or without a getConfig function, and its "locale" config), the    *)
(* localStorage items "language" and "lang", and navigator.language.       *)
(***************************************************************************)
Undefined == [type |-> "undefined", v |-> <<>>]
Null == [type |-> "null", v |-> <<>>]
ANumber == [type |-> "number", v |-> <<>>]
Str(s) == [type |-> "string", v |-> s]

\* getOptionalString(value)
getOptionalString(value) == IF value.type = "string" THEN Some(value.v) ELSE NoStr

\* getObjectString(source, key), given the value source[key] (undefined when
\* the key is not in the source)
getObjectString(value) == getOptionalString(value)

\* getVaultLocale(vault)
getVaultLocale(vault) ==
  IF vault.hasGetConfig THEN getOptionalString(vault.locale) ELSE NoStr

\* a ?? b on two values of the host
NullishValue(a, b) == IF a.type \in {"undefined", "null"} THEN b ELSE a

\* a ?? b on two optional strings
Nullish(a, b) == IF a.ok THEN a ELSE b

\* String.prototype.toLowerCase on the letters of the locale names
ToLowerChar(c) ==
  CASE c = "Z" -> "z" [] c = "H" -> "h" [] c = "E" -> "e" [] c = "N" -> "n"
    [] c = "C" -> "c" [] c = "U" -> "u" [] c = "S" -> "s"
    [] OTHER -> c

ToLowerCase(s) == [i \in 1..Len(s) |-> ToLowerChar(s[i])]

\* String.prototype.startsWith
StartsWith(s, prefix) ==
  Len(s) >= Len(prefix) /\ SubSeq(s, 1, Len(prefix)) = prefix

\* getTranslations(app)
getTranslations(h) ==
  LET storageLanguage ==
        getOptionalString(NullishValue(h.storageLanguage, h.storageLang))
      navigatorLanguage == getOptionalString(h.navigatorLanguage)
      localeCandidate ==
        Coalesce(Nullish(getObjectString(h.locale),
                 Nullish(getObjectString(h.lang),
                 Nullish(getVaultLocale(h.vault),
                 Nullish(storageLanguage, navigatorLanguage)))),
                 <<"e", "n">>)
      locale == ToLowerCase(localeCandidate)
  IN IF StartsWith(locale, <<"z", "h">>) THEN zhStrings ELSE enStrings

\* a host that reports nothing but the browser's language, en-US
DefaultHost ==
  [locale |-> Undefined, lang |-> Undefined,
   vault |-> [hasGetConfig |-> TRUE, locale |-> Undefined],
   storageLanguage |-> Null, storageLang |-> Null,
   navigatorLanguage |-> Str(<<"e", "n", "-", "U", "S">>)]

\* getStrings(): the string table of the host
ActiveStrings == getTranslations(host)

ZeroDisplay == << <<"0", "0">>, <<"0", "0">>, <<"0", "0">>, <<"0", "0">> >>

BlankView ==
  [loaded |-> FALSE, mounts |-> 0, target |-> 0, label |-> <<>>, color |-> <<>>,
   context |-> FALSE, lineStart |-> 0, lineEnd |-> 0, intervalId |-> 0,
   expired |-> FALSE, colorOpen |-> FALSE, display |-> ZeroDisplay]

ClosedModal(id) ==
  [open |-> FALSE, id |-> id, w |-> 0, targetValue |-> <<>>, labelValue |-> <<>>,
   colorValue |-> <<>>]

NoData == [target |-> 0, label |-> <<>>, color |-> <<>>]

(***************************************************************************)
(* The render widget.                                                      *)
(***************************************************************************)
\* what tick leaves in intervalId: cleared when the target is reached
TickIntervalId(intervalId, diffMs) ==
  IF diffMs <= 0 THEN 0 ELSE intervalId

\* a tick whose minutes are not reduced to the current hour
ViewTickWholeMinutes(v, t) ==
  LET diffMs == v.target - t
      totalSeconds == Max(0, diffMs \div MsPerSecond)
      days == totalSeconds \div 86400
      hours == (totalSeconds % 86400) \div 3600
      minutes == totalSeconds \div 60
      seconds == totalSeconds % 60
  IN [v EXCEPT !.display = <<pad(days), pad(hours), pad(minutes), pad(seconds)>>,
               !.expired = (diffMs <= 0),
               !.intervalId = TickIntervalId(v.intervalId, diffMs)]

\* CountdownView.tick at time t: the object after it
ViewTick(v, t) ==
  LET diffMs == v.target - t
      totalSeconds == Max(0, diffMs \div MsPerSecond)
      days == totalSeconds \div 86400
      hours == (totalSeconds % 86400) \div 3600
      minutes == (totalSeconds % 3600) \div 60
      seconds == totalSeconds % 60
  IN [v EXCEPT !.display = <<pad(days), pad(hours), pad(minutes), pad(seconds)>>,
               !.expired = (diffMs <= 0),
               !.intervalId = TickIntervalId(v.intervalId, diffMs)]

\* CountdownView.tick at time t: the window's timers of the widget after it
TimersTick(ts, v, t) ==
  IF v.target - t <= 0 /\ v.intervalId # 0 THEN ts \ {v.intervalId} ELSE ts

\* the first line at or after i that equals a given line; 0 when there is none
RECURSIVE FindLine(_, _, _)
FindLine(d, line, i) ==
  IF i > Len(d) THEN 0
  ELSE IF d[i] = line THEN i
  ELSE FindLine(d, line, i + 1)

\* ctx.getSectionInfo: the line range (counted from 0) of the first countdown
\* block at or after line i of the document
SectionFrom(d, i) ==
  LET open == FindLine(d, FenceOpen, i)
      close == IF open = 0 THEN 0 ELSE FindLine(d, FenceClose, open + 1)
  IN [found |-> open # 0 /\ close # 0, lineStart |-> open - 1, lineEnd |-> close - 1]

\* the section of the first countdown block of the document
SectionOf(d) == SectionFrom(d, 1)

\* the source of the block of a section: the lines between its fences
SourceOf(d, lineStart, lineEnd) == SubSeq(d, lineStart + 2, lineEnd)

\* the constructor of CountdownView
NewView(old, parsed, hasContext, section, st) ==
  [loaded |-> TRUE, mounts |-> old.mounts + 1,
   target |-> parsed.target.v, label |-> parsed.label,
   color |-> Coalesce(normaliseColor(Some(parsed.color)),
                      Coalesce(normaliseColor(Some(st.defaultColor)),
                               DEFAULT_SETTINGS.defaultColor)),
   context |-> hasContext,
   lineStart |-> section.lineStart, lineEnd |-> section.lineEnd,
   intervalId |-> 0, expired |-> FALSE, colorOpen |-> FALSE,
   display |-> ZeroDisplay]

\* CountdownView.onload: a tick, then the repeating timer is started
ViewOnload(v, t, id) == [ViewTick(v, t) EXCEPT !.intervalId = id]

TimersOnload(ts, v, t, id) == TimersTick(ts, v, t) \cup {id}

\* CountdownView.onunload
ViewOnunload(v) == [v EXCEPT !.loaded = FALSE, !.intervalId = 0]

TimersOnunload(ts, v) == IF v.intervalId # 0 THEN ts \ {v.intervalId} ELSE ts

\* whether an object is still referred to by the modal or by a pending call
Referenced(w) ==
  \/ modal.open /\ modal.w = w
  \/ \E k \in 1..Len(ops) : ops[k].w = w

\* renderCountdownBlock of the first block of the document, and the onload of
\* the widget it creates
Mount(w, hasContext) ==
  /\ ~view[w].loaded
  /\ view[w].mounts < MaxMounts
  /\ ~Referenced(w)
  /\ fileExists
  /\ SectionOf(doc).found
  /\ LET section == SectionOf(doc)
         parsed == parseCountdownSource(
                     SourceOf(doc, section.lineStart, section.lineEnd),
                     getDefaultLabel(settings, ActiveStrings), settings.defaultColor)
         created == NewView(view[w], parsed, hasContext, section, settings)
         id == view[w].mounts + 1
     IN /\ view' = IF parsed.target.ok
                     THEN [view EXCEPT ![w] = ViewOnload(created, now, id)]
                     ELSE view
        /\ timers' = IF parsed.target.ok
                       THEN [timers EXCEPT ![w] = TimersOnload(timers[w], created, now, id)]
                       ELSE timers
  /\ UNCHANGED <<host, now, settings, durationInput, fileExists, doc, modal, ops, notice>>

\* the callback of the repeating timer
TimerFire(w) ==
  /\ timers[w] # {}
  /\ view' = [view EXCEPT ![w] = ViewTick(view[w], now)]
  /\ timers' = [timers EXCEPT ![w] = TimersTick(timers[w], view[w], now)]
  /\ UNCHANGED <<host, now, settings, durationInput, fileExists, doc, modal, ops, notice>>

\* the host unloads the widget
Unmount(w) ==
  /\ view[w].loaded
  /\ view' = [view EXCEPT ![w] = ViewOnunload(view[w])]
  /\ timers' = [timers EXCEPT ![w] = TimersOnunload(timers[w], view[w])]
  /\ UNCHANGED <<host, now, settings, durationInput, fileExists, doc, modal, ops, notice>>

\* time passes
AdvanceClock(d) ==
  /\ ClockStepsOf(now + d) <= MaxClockSteps
  /\ now' = now + d
  /\ UNCHANGED <<host, settings, durationInput, fileExists, doc, view, timers, modal, ops, notice>>

\* the document is deleted from the vault
DeleteFile ==
  /\ fileExists
  /\ fileExists' = FALSE
  /\ UNCHANGED <<host, now, settings, durationInput, doc, view, timers, modal, ops, notice>>

(***************************************************************************)
(* updateCountdownBlock: the document write shared by the edit modal and   *)
(* the colour swatches.  The call looks the file up at once; when the file *)
(* exists it awaits the host's read, splices the block's lines and awaits  *)
(* the host's write.                                                       *)
(***************************************************************************)
\* the lines written for a record
BlockLines(data) ==
  serializeCountdownLines([target |-> toISOString(data.target),
                           label |-> data.label, color |-> data.color])

\* the content written back: the content read, with the section's lines replaced
SplicedContent(content, v, data) ==
  Splice(content, v.lineStart, v.lineEnd - v.lineStart + 1, BlockLines(data))

\* the call waiting for the host's read
PendingOp(kind, w, modalId, data) ==
  [kind |-> kind, w |-> w, modalId |-> modalId, data |-> data,
   phase |-> "read", content |-> <<>>]

RemoveAt(seq, k) == SubSeq(seq, 1, k - 1) \o SubSeq(seq, k + 1, Len(seq))

\* the object after the edit's submit handler resumed: the record is taken
\* over, the colour applied, the label set, and a tick run
ViewAfterEdit(v, data, t) ==
  ViewTick([v EXCEPT !.target = data.target, !.label = data.label,
                     !.color = data.color], t)

TimersAfterEdit(ts, v, data, t) ==
  TimersTick(ts, [v EXCEPT !.target = data.target], t)

\* the object after setColor resumed and the swatch handler closed the popover
ViewAfterColor(v, data) == [v EXCEPT !.color = data.color, !.colorOpen = FALSE]

(***************************************************************************)
(* The edit modal.                                                         *)
(***************************************************************************)
\* the texts a user gives to the target field
TargetInputs ==
  { <<>>,
    <<"x">>,
    DatePrefix \o <<"0", "1", " ", "0", "0", ":", "0", "1">> }

\* the texts a user gives to the label field
LabelInputs == { <<" ">> }

\* the values the colour picker reports
PickerInputs == { <<"#", "1", "2", "b", "7", "6", "a">> }

\* the edit button: openEditModal and the constructor of CountdownModal
ClickEdit(w) ==
  /\ view[w].loaded
  /\ view[w].context
  /\ ~modal.open
  /\ modal.id < MaxModals
  /\ modal' = [open |-> TRUE, id |-> modal.id + 1, w |-> w,
               targetValue |-> toDateTimeLocalInput(view[w].target),
               labelValue |-> view[w].label,
               colorValue |-> Coalesce(normaliseColor(Some(view[w].color)),
                                       settings.defaultColor)]
  /\ UNCHANGED <<host, now, settings, durationInput, fileExists, doc, view, timers, ops, notice>>

\* the user changes the target field
ModalSetTarget(text) ==
  /\ modal.open
  /\ modal' = [modal EXCEPT !.targetValue = text]
  /\ UNCHANGED <<host, now, settings, durationInput, fileExists, doc, view, timers, ops, notice>>

\* the user changes the label field
ModalSetLabel(text) ==
  /\ modal.open
  /\ modal' = [modal EXCEPT !.labelValue = text]
  /\ UNCHANGED <<host, now, settings, durationInput, fileExists, doc, view, timers, ops, notice>>

\* the user picks a colour in the modal
ModalPickColor(value) ==
  /\ modal.open
  /\ modal' = [modal EXCEPT !.colorValue =
                 Coalesce(normaliseColor(Some(value)), settings.defaultColor)]
  /\ UNCHANGED <<host, now, settings, durationInput, fileExists, doc, view, timers, ops, notice>>

\* the cancel button
ModalCancel ==
  /\ modal.open
  /\ modal' = ClosedModal(modal.id)
  /\ UNCHANGED <<host, now, settings, durationInput, fileExists, doc, view, timers, ops, notice>>

\* a validation without the check of the parsed date
ValidateTargetUnparsed(targetValue) ==
  IF targetValue = <<>> THEN "empty" ELSE "ok"

\* the validation of handleSubmit: "empty", "parse" or "ok"
ValidateTarget(targetValue) ==
  IF targetValue = <<>> THEN "empty"
  ELSE IF ~parseTargetDate(Some(targetValue)).ok THEN "parse"
  ELSE "ok"

\* the record handleSubmit passes to the submit handler
SubmitData(m, st) ==
  [target |-> parseTargetDate(Some(m.targetValue)).v,
   label |-> IF Trim(m.labelValue) = <<>>
               THEN getDefaultLabel(st, ActiveStrings) ELSE Trim(m.labelValue),
   color |-> Coalesce(normaliseColor(Some(m.colorValue)), st.defaultColor)]

\* the confirm button: handleSubmit up to its first wait (lim bounds the
\* pending calls and the length of the document)
ModalConfirm(lim) ==
  /\ modal.open
  /\ LET verdict == ValidateTarget(modal.targetValue)
         data == SubmitData(modal, settings)
         w == modal.w
     IN IF verdict # "ok"
          THEN \* a warning, and nothing else
               /\ notice' = verdict
               /\ UNCHANGED <<host, view, timers, modal, ops>>
          ELSE IF ~fileExists
          THEN \* updateCountdownBlock shows the notice and returns; the
               \* handler goes on and handleSubmit closes the modal
               /\ notice' = "applyError"
               /\ view' = [view EXCEPT ![w] = ViewAfterEdit(view[w], data, now)]
               /\ timers' = [timers EXCEPT ![w] = TimersAfterEdit(timers[w], view[w], data, now)]
               /\ modal' = ClosedModal(modal.id)
               /\ UNCHANGED ops
          ELSE \* the handler awaits the host's read
               /\ Len(ops) < lim.ops
               /\ Len(doc) <= lim.lines
               /\ ops' = Append(ops, PendingOp("edit", w, modal.id, data))
               /\ UNCHANGED <<host, view, timers, modal, notice>>
  /\ UNCHANGED <<host, now, settings, durationInput, fileExists, doc>>

(***************************************************************************)
(* The colour popover.                                                     *)
(***************************************************************************)
\* the colour button: toggleColorPopover
ClickColorButton(w) ==
  /\ view[w].loaded
  /\ view[w].context
  /\ ~modal.open
  /\ view' = [view EXCEPT ![w].colorOpen = ~view[w].colorOpen]
  /\ UNCHANGED <<host, now, settings, durationInput, fileExists, doc, timers, modal, ops, notice>>

\* a mousedown outside the widget
MouseDownOutside(w) ==
  /\ view[w].loaded
  /\ view[w].context
  /\ view' = [view EXCEPT ![w].colorOpen = FALSE]
  /\ UNCHANGED <<host, now, settings, durationInput, fileExists, doc, timers, modal, ops, notice>>

\* the Escape key
KeyEscape(w) ==
  /\ view[w].loaded
  /\ view[w].context
  /\ view' = [view EXCEPT ![w].colorOpen = FALSE]
  /\ UNCHANGED <<host, now, settings, durationInput, fileExists, doc, timers, modal, ops, notice>>

\* the colour of a swatch
SwatchColor(i) ==
  LET labelColor == Coalesce(normaliseColor(Some(COLOR_PRESETS[i])), COLOR_PRESETS[i])
  IN Coalesce(normaliseColor(Some(labelColor)), labelColor)

\* whether setColor returns before any write
SetColorSkips(v, color) ==
  \/ ~v.context
  \/ ~normaliseColor(Some(color)).ok
  \/ colorsEqual(normaliseColor(Some(color)).v, v.color)

\* a click on a swatch: setColor up to its first wait, then closeColorPopover
ClickSwatch(w, i, lim) ==
  /\ view[w].loaded
  /\ view[w].context
  /\ view[w].colorOpen
  /\ ~modal.open
  /\ LET color == SwatchColor(i)
         data == [target |-> view[w].target, label |-> view[w].label,
                  color |-> normaliseColor(Some(color)).v]
     IN IF SetColorSkips(view[w], color)
          THEN /\ view' = [view EXCEPT ![w].colorOpen = FALSE]
               /\ UNCHANGED <<host, ops, notice>>
          ELSE IF ~fileExists
          THEN /\ notice' = "applyError"
               /\ view' = [view EXCEPT ![w] = ViewAfterColor(view[w], data)]
               /\ UNCHANGED ops
          ELSE /\ Len(ops) < lim.ops
               /\ Len(doc) <= lim.lines
               /\ ops' = Append(ops, PendingOp("color", w, 0, data))
               /\ UNCHANGED <<host, view, notice>>
  /\ UNCHANGED <<host, now, settings, durationInput, fileExists, doc, timers, modal>>

(***************************************************************************)
(* The host's answers to the pending calls.                                *)
(***************************************************************************)
\* the host's read resolves: the lines are spliced and the write is issued
ReadDone(k) ==
  /\ k \in 1..Len(ops)
  /\ ops[k].phase = "read"
  /\ fileExists
  /\ ops' = [ops EXCEPT ![k].phase = "write",
                        ![k].content = SplicedContent(doc, view[ops[k].w], ops[k].data)]
  /\ UNCHANGED <<host, now, settings, durationInput, fileExists, doc, view, timers, modal, notice>>

\* the host's write resolves and the caller resumes
WriteDone(k) ==
  /\ k \in 1..Len(ops)
  /\ ops[k].phase = "write"
  /\ fileExists
  /\ LET op == ops[k]
         w == op.w
     IN /\ doc' = op.content
        /\ ops' = RemoveAt(ops, k)
        /\ IF op.kind = "edit"
             THEN /\ view' = [view EXCEPT ![w] = ViewAfterEdit(view[w], op.data, now)]
                  /\ timers' = [timers EXCEPT ![w] =
                                  TimersAfterEdit(timers[w], view[w], op.data, now)]
                  /\ modal' = IF modal.open /\ modal.id = op.modalId
                                THEN ClosedModal(modal.id) ELSE modal
             ELSE /\ view' = [view EXCEPT ![w] = ViewAfterColor(view[w], op.data)]
                  /\ UNCHANGED <<host, timers, modal>>
  /\ UNCHANGED <<host, now, settings, durationInput, fileExists, notice>>

\* the host's read or write rejects: handleSubmit catches the edit's failure
\* and shows the notice; the swatch handler has no catch
OpFail(k) ==
  /\ k \in 1..Len(ops)
  /\ ops' = RemoveAt(ops, k)
  /\ notice' = IF ops[k].kind = "edit" THEN "applyError" ELSE notice
  /\ UNCHANGED <<host, now, settings, durationInput, fileExists, doc, view, timers, modal>>

(***************************************************************************)
(* The widget specification: one widget of a document with one block.      *)
(***************************************************************************)
\* what the plugin's data file holds at startup: nothing, or a malformed
\* default colour
NoStored ==
  [present |-> FALSE, defaultLabel |-> NoStr, defaultDurationMinutes |-> NoDate,
   defaultColor |-> NoStr]

StoredMalformed ==
  [NoStored EXCEPT !.present = TRUE, !.defaultColor = Some(<<"r", "e", "d">>)]

\* a document: a heading, the block with the given source, a closing line
DocOf(source) == << <<"h">> >> \o <<FenceOpen>> \o source \o <<FenceClose>> \o << <<"t">> >>

\* the initial worlds: a full record due in half a second under the default
\* settings; a target alone, already reached, under a malformed stored
\* colour; an unparsable target
InitialWorlds ==
  { [stored |-> NoStored,
     source |-> << toISOString(ShortStep), <<" ", "L">>,
                   <<"#", "f", "2", "5", "c", "5", "4">> >>],
    [stored |-> StoredMalformed, source |-> << toISOString(0) >>],
    [stored |-> NoStored, source |-> << <<"x">> >>] }

\* the bounds on the pending calls and on the length of the document
Limits == [ops |-> MaxOps, lines |-> MaxDocLen]

Init ==
  /\ now = 0
  /\ host = DefaultHost
  /\ \E world \in InitialWorlds :
       /\ settings = loadSettings(world.stored, ActiveStrings)
       /\ doc = DocOf(world.source)
  /\ durationInput = <<>>
  /\ fileExists = TRUE
  /\ view = [w \in W |-> BlankView]
  /\ timers = [w \in W |-> {}]
  /\ modal = ClosedModal(0)
  /\ ops = <<>>
  /\ notice = "none"

Next ==
  \/ \E hasContext \in BOOLEAN : Mount(1, hasContext)
  \/ TimerFire(1)
  \/ Unmount(1)
  \/ \E d \in {ShortStep, LongStep} : AdvanceClock(d)
  \/ DeleteFile
  \/ ClickEdit(1)
  \/ \E text \in TargetInputs : ModalSetTarget(text)
  \/ \E text \in LabelInputs : ModalSetLabel(text)
  \/ \E value \in PickerInputs : ModalPickColor(value)
  \/ ModalCancel
  \/ ModalConfirm(Limits)
  \/ ClickColorButton(1)
  \/ MouseDownOutside(1)
  \/ KeyEscape(1)
  \/ \E i \in 1..MaxSwatch : ClickSwatch(1, i, Limits)
  \/ \E k \in 1..MaxOps : ReadDone(k)
  \/ \E k \in 1..MaxOps : WriteDone(k)
  \/ \E k \in 1..MaxOps : OpFail(k)

Spec == Init /\ [][Next]_vars

(***************************************************************************)
(* Properties of the widget specification.                                 *)
(***************************************************************************)
\* the record of a widget
Rec(v) == [target |-> v.target, label |-> v.label, color |-> v.color]

\* a step that resumes the edit's submit handler of widget w
EditCompletes(w) ==
  \/ ModalConfirm(Limits) /\ modal.w = w /\ ~fileExists
       /\ ValidateTarget(modal.targetValue) = "ok"
  \/ \E k \in 1..Len(ops) : WriteDone(k) /\ ops[k].w = w /\ ops[k].kind = "edit"

\* a step that runs a tick of widget w
TickStep(w) ==
  \/ TimerFire(w)
  \/ \E hasContext \in BOOLEAN : Mount(w, hasContext) /\ view'[w].loaded
  \/ EditCompletes(w)

\* C1, as stated: once a tick has marked a mounted widget expired and has
\* stopped its repeating timer, the widget stays expired for as long as that
\* mount lasts, whatever ticks, edit submissions and colour selections follow.
C1_ExpiredIsTerminal ==
  [][\A w \in W :
       (/\ view[w].loaded /\ view[w].expired /\ view[w].intervalId = 0
        /\ view'[w].loaded /\ view'[w].mounts = view[w].mounts)
       => view'[w].expired]_vars

\* C2: after every tick of a mounted widget, a display of 00:00:00:00 (zero
\* remaining whole seconds) comes with the expired mark and with no active
\* repeating timer.
C2_ZeroMeansExpired ==
  [][\A w \in W :
       (TickStep(w) /\ view'[w].loaded /\ view'[w].display = ZeroDisplay)
       => /\ view'[w].expired
          /\ view'[w].intervalId = 0
          /\ timers'[w] = {}]_vars

\* C3: a widget owns at most one repeating timer, an unmounted widget owns
\* none (whatever completes after the unmount), and the unmount of a widget
\* that has already expired changes nothing of its timer.
C3_TimerOwnership ==
  [][\A w \in W :
       /\ Cardinality(timers'[w]) <= 1
       /\ ~view'[w].loaded => (timers'[w] = {} /\ view'[w].intervalId = 0)
       /\ (Unmount(w) /\ view[w].expired)
            => (timers'[w] = timers[w] /\ view'[w].intervalId = view[w].intervalId)]_vars

\* what a rejected submission leaves alone: the modal with its fields, the
\* document, the widgets, the timers and the pending calls
RejectedFrame ==
  /\ modal' = modal
  /\ doc' = doc /\ fileExists' = fileExists
  /\ view' = view /\ timers' = timers
  /\ ops' = ops

\* C4: a submission with an empty target field shows the "empty" warning, one
\* with a non-empty target that parses to no instant shows the "parse"
\* warning, and in both cases the submit handler is not invoked: no call of
\* updateCountdownBlock starts, the modal stays open, and the document and
\* the widget are unchanged.
C4_InvalidSubmit ==
  [][ModalConfirm(Limits) =>
       /\ modal.targetValue = <<>> => (notice' = "empty" /\ RejectedFrame)
       /\ (modal.targetValue # <<>> /\ ~parseTargetDate(Some(modal.targetValue)).ok)
            => (notice' = "parse" /\ RejectedFrame)]_vars

\* C4: the parse warning is on show for an unparsable target in an open modal
C4_Witness ==
  /\ modal.open
  /\ modal.targetValue = <<"x">>
  /\ notice = "parse"

\* C5: after a valid submission the modal closes only when the submit handler
\* succeeds or the user cancels: when the document is missing or the host
\* rejects the call, the apply-error notice is shown and the modal stays open.
C5_ModalClosesOnSuccessOnly ==
  [][/\ (ModalConfirm(Limits) /\ ValidateTarget(modal.targetValue) = "ok" /\ ~fileExists)
          => (notice' = "applyError" /\ modal'.open)
     /\ \A k \in 1..Len(ops) :
          (OpFail(k) /\ ops[k].kind = "edit" /\ modal.open /\ modal.id = ops[k].modalId)
            => (notice' = "applyError" /\ modal'.open)
     /\ \A k \in 1..Len(ops) :
          (WriteDone(k) /\ ops[k].kind = "edit" /\ modal.id = ops[k].modalId)
            => ~modal'.open
     /\ (modal.open /\ ~modal'.open)
          => (ModalCancel \/ \E k \in 1..Len(ops) : WriteDone(k))]_vars

\* the lines from a fence up to the next closing fence
BlockAt(d, lineStart) ==
  LET close == FindLine(d, FenceClose, lineStart + 2)
  IN IF close = 0 THEN <<>> ELSE SubSeq(d, lineStart + 1, close)

\* a step of the colour path of widget w
ColourStep(w) ==
  \/ \E i \in 1..MaxSwatch : ClickSwatch(w, i, Limits)
  \/ \E k \in 1..Len(ops) : WriteDone(k) /\ ops[k].w = w /\ ops[k].kind = "color"

\* C6: on an edit submission the record of a widget changes only in the step
\* in which the host's write of its block resolves, and the block then holds
\* the new record; a submission whose write does not happen (the write fails
\* or the document is missing) leaves the record unchanged.
C6_RecordFollowsDocument ==
  [][\A w \in W :
       (/\ view'[w].mounts = view[w].mounts
        /\ Rec(view'[w]) # Rec(view[w])
        /\ ~ColourStep(w))
       => /\ \E k \in 1..Len(ops) : WriteDone(k) /\ ops[k].w = w
          /\ BlockAt(doc', view[w].lineStart) = BlockLines(Rec(view'[w]))]_vars

\* C7: the colour button toggles the popover; a swatch of another colour
\* changes the widget's colour only together with a block written with that
\* colour and the widget's target and label; a swatch of the current colour,
\* a mousedown outside and Escape close the popover and change neither the
\* document nor the record.
C7_ColourPopover ==
  [][\A w \in W :
       /\ ClickColorButton(w) => view'[w].colorOpen = ~view[w].colorOpen
       /\ ((\/ MouseDownOutside(w)
            \/ KeyEscape(w)
            \/ \E i \in 1..MaxSwatch :
                 ClickSwatch(w, i, Limits) /\ colorsEqual(SwatchColor(i), view[w].color))
           => /\ ~view'[w].colorOpen
              /\ doc' = doc /\ ops' = ops
              /\ Rec(view'[w]) = Rec(view[w]))
       /\ ((ColourStep(w) /\ view'[w].color # view[w].color)
           => /\ fileExists
              /\ view'[w].target = view[w].target /\ view'[w].label = view[w].label
              /\ BlockAt(doc', view[w].lineStart) = BlockLines(Rec(view'[w])))]_vars

\* C10: every colour of a record is normalized upper-case six-digit hex: the
\* default colour of the loaded settings, the colour a parse of the block
\* returns, the colour a widget holds, the colour the modal passes to its
\* submit handler, and the colour of a block about to be written.
C10_ColoursNormalised ==
  /\ IsNormalisedColour(settings.defaultColor)
  /\ (fileExists /\ SectionOf(doc).found)
       => LET section == SectionOf(doc)
              parsed == parseCountdownSource(
                          SourceOf(doc, section.lineStart, section.lineEnd),
                          getDefaultLabel(settings, ActiveStrings), settings.defaultColor)
          IN parsed.target.ok => IsNormalisedColour(parsed.color)
  /\ \A w \in W : view[w].loaded => IsNormalisedColour(view[w].color)
  /\ (modal.open /\ ValidateTarget(modal.targetValue) = "ok")
       => IsNormalisedColour(SubmitData(modal, settings).color)
  /\ \A k \in 1..Len(ops) : IsNormalisedColour(ops[k].data.color)

(***************************************************************************)
(* The document specification: two widgets of one document, each writing   *)
(* its block through updateCountdownBlock while the other does.            *)
(***************************************************************************)
MaxDocOps == 2

\* a document with two blocks
TwoBlockDoc ==
  << <<"h">> >>
    \o serializeCountdownLines([target |-> toISOString(LongStep), label |-> <<"A">>,
                                color |-> COLOR_PRESETS[1]])
    \o << <<"m">> >>
    \o serializeCountdownLines([target |-> toISOString(LongStep), label |-> <<"B">>,
                                color |-> COLOR_PRESETS[2]])
    \o << <<"t">> >>

DocLimits == [ops |-> MaxDocOps, lines |-> Len(TwoBlockDoc)]

\* the widget rendered for a section of a document, after its onload
MountedAt(d, section, st, t) ==
  ViewOnload(
    NewView(BlankView,
            parseCountdownSource(SourceOf(d, section.lineStart, section.lineEnd),
                                 getDefaultLabel(st, ActiveStrings), st.defaultColor),
            TRUE, section, st),
    t, 1)

\* widget 1 renders the first block; widget 2 renders the first block too (the
\* document open in a second pane) or the second block
InitDoc ==
  /\ now = 0
  /\ host = DefaultHost
  /\ settings = loadSettings(NoStored, ActiveStrings)
  /\ durationInput = <<>>
  /\ fileExists = TRUE
  /\ doc = TwoBlockDoc
  /\ \E second \in {SectionOf(TwoBlockDoc),
                    SectionFrom(TwoBlockDoc, SectionOf(TwoBlockDoc).lineEnd + 2)} :
       view = [w \in W |->
                 IF w = 1 THEN MountedAt(TwoBlockDoc, SectionOf(TwoBlockDoc), settings, 0)
                 ELSE MountedAt(TwoBlockDoc, second, settings, 0)]
  /\ timers = [w \in W |-> {1}]
  /\ modal = ClosedModal(0)
  /\ ops = <<>>
  /\ notice = "none"

NextDoc ==
  \/ \E w \in W : ClickColorButton(w)
  \/ \E w \in W : \E i \in 1..MaxSwatch : ClickSwatch(w, i, DocLimits)
  \/ \E w \in W : ClickEdit(w)
  \/ \E text \in TargetInputs : ModalSetTarget(text)
  \/ ModalConfirm(DocLimits)
  \/ ModalCancel
  \/ \E k \in 1..MaxDocOps : ReadDone(k)
  \/ \E k \in 1..MaxDocOps : WriteDone(k)
  \/ \E k \in 1..MaxDocOps : OpFail(k)

SpecDoc == InitDoc /\ [][NextDoc]_vars

\* C8: whatever the interleaving of the edits of two widgets, a write replaces
\* only the lines lineStart..lineEnd of its own block with the lines of its
\* record: the lines before and after that span are, after the write, what the
\* document held just before the write.
C8_WritesKeepOtherLines ==
  [][\A k \in 1..Len(ops) :
       WriteDone(k) =>
         LET v == view[ops[k].w]
             after == Len(doc) - (v.lineEnd + 1)
         IN /\ SubSeq(doc', 1, v.lineStart) = SubSeq(doc, 1, v.lineStart)
            /\ SubSeq(doc', Len(doc') - after + 1, Len(doc'))
                 = SubSeq(doc, Len(doc) - after + 1, Len(doc))
            /\ BlockAt(doc', v.lineStart) = BlockLines(ops[k].data)]_vars

(***************************************************************************)
(* The settings specification: the duration field of the settings tab and  *)
(* the insert command, which reads the default duration.                   *)
(***************************************************************************)
MaxInputLen == 3

RECURSIVE Pow10(_)
Pow10(n) == IF n = 0 THEN 1 ELSE 10 * Pow10(n - 1)

\* numbers are kept as multiples of 1/Scale, which holds every fraction a
\* text of MaxInputLen characters can write
Scale == Pow10(MaxInputLen)

NaN == [nan |-> TRUE, scaled |-> 0]

\* Number(value) of a text: the empty text is 0; an optional sign, digits and
\* at most one decimal point with a digit on either side is that number; any
\* other text is NaN
NumberOf(text) ==
  LET t == Trim(text)
      signed == t # <<>> /\ t[1] \in {"-", "+"}
      body == IF signed THEN Tail(t) ELSE t
      dot == FindLine(body, ".", 1)
      intPart == IF dot = 0 THEN body ELSE SubSeq(body, 1, dot - 1)
      fracPart == IF dot = 0 THEN <<>> ELSE SubSeq(body, dot + 1, Len(body))
      magnitude == StrToNum(intPart) * Scale
                     + StrToNum(fracPart) * Pow10(MaxInputLen - Len(fracPart))
  IN IF t = <<>> THEN [nan |-> FALSE, scaled |-> 0]
     ELSE IF AllDigits(intPart) /\ AllDigits(fracPart) /\ Len(intPart) + Len(fracPart) >= 1
       THEN [nan |-> FALSE,
             scaled |-> IF t[1] = "-" THEN 0 - magnitude ELSE magnitude]
     ELSE NaN

\* the duration the onChange of the duration field stores: no change for a
\* text that is no finite number or is not above 0, else the floor
DurationAfter(minutes, text) ==
  LET parsed == NumberOf(text)
  IN IF parsed.nan \/ parsed.scaled <= 0 THEN minutes
     ELSE parsed.scaled \div Scale

\* the characters a user types into the duration field
InputChars == {"-", ".", "0", "5", "q"}

RECURSIVE TextsUpTo(_)
TextsUpTo(n) ==
  IF n = 0 THEN { <<>> }
  ELSE TextsUpTo(n - 1)
         \cup { Append(t, c) : t \in { u \in TextsUpTo(n - 1) : Len(u) = n - 1 }, c \in InputChars }

\* the onChange of the duration field
DurationChange(text) ==
  /\ durationInput' = text
  /\ settings' = [settings EXCEPT !.defaultDurationMinutes =
                    DurationAfter(settings.defaultDurationMinutes, text)]
  /\ UNCHANGED <<host, now, fileExists, doc, view, timers, modal, ops, notice>>

\* the insert command: openInsertModal and the constructor of CountdownModal
\* (the modal belongs to no widget, and no pending call refers to it)
OpenInsertModal ==
  /\ ~modal.open
  /\ InWindow(now + settings.defaultDurationMinutes * 60 * 1000)
  /\ modal' = [open |-> TRUE, id |-> modal.id, w |-> 0,
               targetValue |-> toDateTimeLocalInput(
                                 now + settings.defaultDurationMinutes * 60 * 1000),
               labelValue |-> getDefaultLabel(settings, ActiveStrings),
               colorValue |-> Coalesce(normaliseColor(Some(settings.defaultColor)),
                                       settings.defaultColor)]
  /\ UNCHANGED <<host, now, settings, durationInput, fileExists, doc, view, timers, ops, notice>>

InitSettings ==
  /\ now = 0
  /\ host = DefaultHost
  /\ settings = loadSettings(NoStored, ActiveStrings)
  /\ durationInput = <<>>
  /\ fileExists = TRUE
  /\ doc = <<>>
  /\ view = [w \in W |-> BlankView]
  /\ timers = [w \in W |-> {}]
  /\ modal = ClosedModal(0)
  /\ ops = <<>>
  /\ notice = "none"

NextSettings ==
  \/ \E text \in TextsUpTo(MaxInputLen) : DurationChange(text)
  \/ OpenInsertModal
  \/ ModalCancel

SpecSettings == InitSettings /\ [][NextSettings]_vars

\* C9: defaultDurationMinutes is a positive integer in every reachable state
\* of the settings: a text that is 0, negative or no number leaves it as it
\* was, and a positive fraction is stored floored, still positive.
C9_DurationPositive ==
  settings.defaultDurationMinutes >= 1

(***************************************************************************)
(* The codec specification: the insert command writes the block of a       *)
(* record into an empty note, and the note is then rendered.               *)
(***************************************************************************)
\* the valid records tried: instants with and without milliseconds, trimmed
\* non-empty labels (one of them of the form of a colour), preset colours
CodecTargets ==
  {0, ShortStep, MsPerSecond, MsPerMinute + MsPerSecond + 1,
   MsPerDay + MsPerHour + 2 * MsPerMinute + 3 * MsPerSecond + 4,
   2 * MsPerDay - 1}

CodecLabels ==
  { <<"L">>, <<"a", " ", "b">>, <<"#", "1", "2", "B", "7", "6", "A">> }

CodecRecords ==
  [target : CodecTargets, label : CodecLabels,
   color : {COLOR_PRESETS[i] : i \in DOMAIN COLOR_PRESETS}]

\* the snippet the insert command puts at the cursor: two line breaks, the
\* block, two line breaks
SnippetLines(data) == << <<>>, <<>> >> \o BlockLines(data) \o << <<>>, <<>> >>

\* onSubmit of the insert modal with a record, the cursor in an empty note
InsertRecord(data) ==
  /\ doc = <<>>
  /\ fileExists
  /\ doc' = SnippetLines(data)
  /\ UNCHANGED <<host, now, settings, durationInput, fileExists, view, timers, modal, ops, notice>>

\* what renderCountdownBlock parses out of the first block of a document
ParsedBlock(d, st) ==
  LET section == SectionOf(d)
  IN parseCountdownSource(SourceOf(d, section.lineStart, section.lineEnd),
                          getDefaultLabel(st, ActiveStrings), st.defaultColor)

InitCodec ==
  /\ now = 0
  /\ host = DefaultHost
  /\ \E stored \in {NoStored, StoredMalformed} :
       settings = loadSettings(stored, ActiveStrings)
  /\ durationInput = <<>>
  /\ fileExists = TRUE
  /\ doc = <<>>
  /\ view = [w \in W |-> BlankView]
  /\ timers = [w \in W |-> {}]
  /\ modal = ClosedModal(0)
  /\ ops = <<>>
  /\ notice = "none"

NextCodec ==
  \/ \E data \in CodecRecords : InsertRecord(data)
  \/ \E hasContext \in BOOLEAN : Mount(1, hasContext)
  \/ Unmount(1)

SpecCodec == InitCodec /\ [][NextCodec]_vars

\* C11: the block written for a valid record r has exactly 5 lines, and the
\* parse of its body lines yields the target of r to the second, the label
\* of r and the normalized colour of r.
C11_RoundTrip ==
  [][\A r \in CodecRecords :
       InsertRecord(r)
       => /\ Len(BlockLines(r)) = 5
          /\ SectionOf(doc').found
          /\ SectionOf(doc').lineEnd - SectionOf(doc').lineStart + 1 = 5
          /\ LET parsed == ParsedBlock(doc', settings)
             IN /\ parsed.target.ok
                /\ parsed.target.v \div MsPerSecond = r.target \div MsPerSecond
                /\ parsed.label = r.label
                /\ parsed.color = normaliseColor(Some(r.color)).v]_vars

\* C11: a note holding the block of a record with milliseconds in its target
\* and a label of the form of a colour, rendered as a widget of that record
C11_Witness ==
  /\ doc = SnippetLines([target |-> MsPerMinute + MsPerSecond + 1,
                         label |-> <<"#", "1", "2", "B", "7", "6", "A">>,
                         color |-> COLOR_PRESETS[5]])
  /\ view[1].loaded
  /\ view[1].target = MsPerMinute + MsPerSecond + 1
  /\ view[1].label = <<"#", "1", "2", "B", "7", "6", "A">>
  /\ view[1].color = COLOR_PRESETS[5]

\* C12: whenever the host's read or write of a pending call fails, on the
\* edit path and on the colour path alike, the apply-error notice is shown,
\* no other call is started in its place (no retry, the document is not
\* written), and every widget keeps its record and its timer.
C12_FailuresSurfaced ==
  [][\A k \in 1..Len(ops) :
       OpFail(k)
       => /\ notice' = "applyError"
          /\ Len(ops') = Len(ops) - 1
          /\ doc' = doc
          /\ \A w \in W : /\ Rec(view'[w]) = Rec(view[w])
                          /\ view'[w].loaded = view[w].loaded
                          /\ timers'[w] = timers[w]]_vars

(***************************************************************************)
(* The locale specification: the plugin is loaded, and the insert command  *)
(* is run, under each host.                                                *)
(***************************************************************************)
\* the values a field of the host may hold, and those of a localStorage item
HostValues ==
  {Undefined, Str(<<>>), Str(<<"Z", "h", "-", "C", "N">>), Str(<<"e", "n">>)}

StorageValues == {Null, Str(<<>>), Str(<<"z", "h">>)}

Hosts ==
  [locale : HostValues \cup {ANumber}, lang : HostValues,
   vault : {[hasGetConfig |-> FALSE, locale |-> Undefined]}
             \cup [hasGetConfig : {TRUE}, locale : HostValues],
   storageLanguage : StorageValues, storageLang : StorageValues,
   navigatorLanguage : HostValues]

\* CountdownTimerPlugin.onload: the settings are loaded from the data file
PluginOnload(stored) ==
  /\ settings' = loadSettings(stored, ActiveStrings)
  /\ UNCHANGED <<host, now, durationInput, fileExists, doc, view, timers, modal, ops, notice>>

InitLocale ==
  /\ now = 0
  /\ host \in Hosts
  /\ settings = DEFAULT_SETTINGS
  /\ durationInput = <<>>
  /\ fileExists = TRUE
  /\ doc = <<>>
  /\ view = [w \in W |-> BlankView]
  /\ timers = [w \in W |-> {}]
  /\ modal = ClosedModal(0)
  /\ ops = <<>>
  /\ notice = "none"

NextLocale ==
  \/ \E stored \in {NoStored, StoredMalformed} : PluginOnload(stored)
  \/ OpenInsertModal
  \/ ModalCancel

SpecLocale == InitLocale /\ [][NextLocale]_vars

\* C13: the string table in use is zh exactly when the first non-empty value
\* among the host's locale field, the host's language field, the vault's
\* config locale, the browser storage language items and the navigator
\* language, or "en" when all are absent or empty, starts with "zh" in any
\* letter case.
C13_LocaleResolution ==
  LET storage == IF host.storageLanguage.type = "string" /\ host.storageLanguage.v # <<>>
                   THEN host.storageLanguage ELSE host.storageLang
      providers == << host.locale, host.lang,
                      IF host.vault.hasGetConfig THEN host.vault.locale ELSE Undefined,
                      storage, host.navigatorLanguage >>
      nonEmpty == {i \in 1..5 : providers[i].type = "string" /\ providers[i].v # <<>>}
      first == IF nonEmpty = {} THEN <<"e", "n">>
               ELSE providers[CHOOSE i \in nonEmpty : \A j \in nonEmpty : i <= j].v
      zh == Len(first) >= 2 /\ first[1] \in {"z", "Z"} /\ first[2] \in {"h", "H"}
  IN ActiveStrings = IF zh THEN zhStrings ELSE enStrings

(***************************************************************************)
(* The tick specification: a widget is mounted on a block with one of      *)
(* several targets at one of several times, and ticks.                     *)
(***************************************************************************)
\* 1 day, 1 hour, 1 minute and 1 second
OneOfEach == MsPerDay + MsPerHour + MsPerMinute + MsPerSecond

TickTargets ==
  {0, MsPerSecond - 1, MsPerSecond, MsPerMinute - 1, MsPerHour - 1, MsPerDay - 1,
   OneOfEach, OneOfEach + MsPerSecond + ShortStep,
   23 * MsPerDay + MsPerDay - 1}

TickNows == {0, ShortStep, MsPerSecond, OneOfEach}

InitTick ==
  /\ now \in TickNows
  /\ host = DefaultHost
  /\ settings = loadSettings(NoStored, ActiveStrings)
  /\ durationInput = <<>>
  /\ fileExists = TRUE
  /\ \E target \in TickTargets : doc = DocOf(<< toISOString(target) >>)
  /\ view = [w \in W |-> BlankView]
  /\ timers = [w \in W |-> {}]
  /\ modal = ClosedModal(0)
  /\ ops = <<>>
  /\ notice = "none"

NextTick ==
  \/ \E hasContext \in BOOLEAN : Mount(1, hasContext)
  \/ TimerFire(1)
  \/ \E d \in {ShortStep, LongStep} : AdvanceClock(d)
  \/ Unmount(1)

SpecTick == InitTick /\ [][NextTick]_vars

====
